---- MODULE Spec2Model ----
(***************************************************************************)
(* A model of hypercorn's WebSocket stream (hypercorn/protocol/ws_stream.py):*)
(* one WSStream object, the wire-side events handed to WSStream.handle and   *)
(* the application messages handed to WSStream.app_send.  The events the     *)
(* stream sends to its protocol are recorded in `out`, the messages it puts  *)
(* to the application in `appq`.  The wsproto Connection the stream drives   *)
(* is modelled by its connection state and its queue of undelivered frames.  *)
(*                                                                           *)
(* Two further objects are modelled, each under a specification of its own:  *)
(* the HTTP/1.1 protocol of one connection (H11Protocol, as section 4.3 of   *)
(* the specification and tests/protocol/test_h11.py describe it) and the     *)
(* datagram loop of the trio UDP server (hypercorn/trio/udp_server.py).      *)
(***************************************************************************)
EXTENDS Integers, Sequences, FiniteSets, TLC

VARIABLES
    state,       \* self.state, an ASGIWebsocketState
    closed,      \* self.closed
    app_put,     \* self.app_put: None, or "app_put" once spawn_app has returned
    handshake,   \* self.handshake: NoHandshake before the Request, a Handshake record after
    response,    \* self.response: NoResponse, or the websocket.http.response.start message
    connection,  \* self.connection: Unset, or the ConnectionState of the wsproto Connection
    pending,     \* the events the wsproto Connection holds and has not yet yielded
    buffer,      \* self.buffer.value, a record [kind, data]; kind None when the value is None
    out,         \* the events passed to self.send, in order
    appq,        \* the messages passed to self.app_put, in order
    call,        \* the handler call that produced this state
    raised       \* the exception that call raised, or None

VARIABLES
    client,          \* what the HTTP/1.1 client sends next: "head", "body" or "done"
    received,        \* the number of request heads the connection has received
    receive_buffer,  \* the items received and not yet parsed
    their_state,     \* the parser's view of the client: IDLE, SEND_BODY, DONE, MUST_CLOSE, ERROR
    our_state,       \* the server side of the exchange: IDLE, SEND_RESPONSE, SEND_BODY, MUST_CLOSE
    keep_alive,      \* FALSE once a request with connection: close has been parsed
    waiting_for_100, \* the client waits for the 100 interim response
    stream,          \* protocol.stream: NoStream, or the stream_id of the live stream
    streams,         \* the number of streams created so far
    can_read,        \* protocol.can_read, the gate: TRUE when set
    reading,         \* position of protocol.handle(RawData): "idle", "events" or "wait"
    handled,         \* the calls of stream.handle, in order
    sends            \* the calls of protocol.send, in order

VARIABLES
    run,             \* position of UDPServer.run: "start", "while", "recvfrom", "handle", "done"
    terminated,      \* context.terminated
    idle,            \* protocol.idle
    datagrams,       \* the number of datagrams the socket has received
    socket,          \* the datagrams received and not yet returned by recvfrom
    datagram,        \* the datagram recvfrom returned, while it is being handled
    passed           \* the datagrams passed to protocol.handle, in order

streamvars == <<state, closed, app_put, handshake, response, connection, pending,
                buffer, out, appq, raised>>
h11vars == <<client, received, receive_buffer, their_state, our_state, keep_alive,
             waiting_for_100, stream, streams, can_read, reading, handled, sends>>
udpvars == <<run, terminated, idle, datagrams, socket, datagram, passed>>

vars == <<streamvars, call, h11vars, udpvars>>

None == "None"
Unset == "Unset"
NoList == <<None>>      \* None in a slot that otherwise holds a list

----------------------------------------------------------------------------
(* Bounds of the model *)

MaxOut == 4             \* longest sequence of outbound events explored
MaxAppQ == 3            \* longest sequence of app messages explored
MaxPending == 1         \* most frames left undelivered in the wsproto Connection
MaxMessageSize == 2     \* config.websocket_max_message_size
MaxOverflow == 1        \* most data buffered beyond websocket_max_message_size
MaxWire == 5            \* most events SpecWire records in out and appq together
MaxRequests == 3        \* most request heads an HTTP/1.1 client sends
MaxHandled == 6         \* longest sequence of stream.handle calls explored
MaxSends == 7           \* longest sequence of protocol.send calls explored
MaxDatagrams == 4       \* most datagrams the UDP socket receives

----------------------------------------------------------------------------
(* class ASGIWebsocketState *)

ASGIWebsocketState == {"HANDSHAKE", "CONNECTED", "RESPONSE", "CLOSED", "HTTPCLOSED"}

(* wsproto.handshake.WEBSOCKET_VERSION *)
WEBSOCKET_VERSION == "13"

(* bytes.lower() / str.lower() on the header values of the model *)
Lower(s) ==
    CASE s = "WebSocket" -> "websocket"
      [] s = "Upgrade" -> "upgrade"
      [] OTHER -> s

(* The order Python's string comparison gives the http_version values *)
VersionRank(v) ==
    CASE v = "1.0" -> 0
      [] v = "1.1" -> 1
      [] v = "2" -> 2
      [] v = "3" -> 3

(* The Requests: http_version and the headers Handshake.__init__ reads.  A
   header that is absent is None (NoList for a list); the connection and sec-websocket-protocol
   values are given as split_comma_header splits them. *)
AllRequests ==
    [http_version : {"1.0", "1.1", "2"},
     connection : {NoList, <<"keep-alive">>, <<"keep-alive", "Upgrade">>},
     upgrade : {None, "websocket", "WebSocket", "h2c"},
     version : {None, "13", "8"},
     key : {None, "key"},
     protocol : {NoList, <<"chat">>}]

(* The Requests the stream is driven with: every http_version, with and
   without key and subprotocols, with and without the upgrade header *)
Requests ==
    {r \in AllRequests :
        /\ r.version = WEBSOCKET_VERSION
        /\ r.connection = <<"keep-alive", "Upgrade">>
        /\ r.upgrade \in {None, "WebSocket"}
        /\ (r.upgrade = None => r.http_version = "1.1" /\ r.protocol = NoList)
        /\ (r.http_version = "2" => r.key = None /\ r.protocol = NoList)
        /\ (r.http_version = "1.0" => r.key # None /\ r.protocol = NoList)}

(* Handshake.__init__ *)
Handshake(request) ==
    [http_version |-> request.http_version,
     connection_tokens |-> request.connection,
     key |-> request.key,
     subprotocols |-> request.protocol,
     upgrade |-> request.upgrade,
     version |-> request.version]

(* Handshake.is_valid: "True", "False", or the exception it raises *)
is_valid(h) ==
    IF VersionRank(h.http_version) < VersionRank("1.1") THEN "False"
    ELSE IF h.http_version = "1.1" /\ h.key = None THEN "False"
    ELSE IF h.http_version = "1.1"
            /\ (h.connection_tokens = NoList
                \/ ~ \E i \in DOMAIN h.connection_tokens :
                        Lower(h.connection_tokens[i]) = "upgrade")
         THEN "False"
    ELSE IF h.http_version = "1.1" /\ h.upgrade = None THEN "AttributeError"
    ELSE IF h.http_version = "1.1" /\ Lower(h.upgrade) # "websocket" THEN "False"
    ELSE IF h.version # WEBSOCKET_VERSION THEN "False"
    ELSE "True"

----------------------------------------------------------------------------
(* protocol events (hypercorn/protocol/events.py), as the stream builds them *)

Response(status_code, headers) ==
    [type |-> "Response", status_code |-> status_code, headers |-> headers]
Body == [type |-> "Body"]
EndBody == [type |-> "EndBody"]
Data(frame) == [type |-> "Data", data |-> frame]
EndData == [type |-> "EndData"]
StreamClosed == [type |-> "StreamClosed"]

(* _send_error_response without the EndBody *)
send_error_response_without_end(status_code) ==
    <<Response(status_code, {"content-length", "connection"})>>

(* WSStream._send_error_response: the events it sends *)
send_error_response(status_code) ==
    <<Response(status_code, {"content-length", "connection"}), EndBody>>

(* Handshake.accept: the exception it raises or None, the status code and the
   names of the headers of the response (the wsproto Connection it returns is
   a new Connection, in state OPEN) *)
accept(h, subprotocol) ==
    IF subprotocol # None /\ h.subprotocols = NoList
    THEN [raised |-> "TypeError", status_code |-> 0, headers |-> {}]
    ELSE IF subprotocol # None
            /\ ~ \E i \in DOMAIN h.subprotocols : h.subprotocols[i] = subprotocol
    THEN [raised |-> "Exception", status_code |-> 0, headers |-> {}]
    ELSE [raised |-> None,
          status_code |-> IF h.http_version = "1.1" THEN 101 ELSE 200,
          headers |->
              (IF subprotocol # None THEN {"sec-websocket-protocol"} ELSE {})
              \cup (IF h.key # None THEN {"sec-websocket-accept"} ELSE {})
              \cup (IF h.http_version = "1.1" THEN {"upgrade", "connection"} ELSE {})]

(* hypercorn.utils.suppress_body *)
suppress_body(method, status_code) ==
    method = "HEAD" \/ (100 <= status_code /\ status_code < 200)
    \/ status_code \in {204, 304}

----------------------------------------------------------------------------
(* The wsproto Connection, as WSStream uses it *)

ConnectionState == {"OPEN", "LOCAL_CLOSING", "REMOTE_CLOSING", "CLOSED"}

(* wsproto.frame_protocol.CloseReason *)
NORMAL_CLOSURE == 1000
ABNORMAL_CLOSURE == 1006
MESSAGE_TOO_BIG == 1009

(* wsproto events the stream sends *)
TextMessage(data) == [event |-> "TextMessage", data |-> data]
BytesMessage(data) == [event |-> "BytesMessage", data |-> data]
Pong == [event |-> "Pong"]
CloseConnection(code) == [event |-> "CloseConnection", code |-> code]

(* Connection.send: whether the event can be sent in connection state cs
   (LocalProtocolError otherwise) *)
can_send(event, cs) ==
    IF event.event = "CloseConnection" THEN cs \in {"OPEN", "REMOTE_CLOSING"}
    ELSE cs = "OPEN"

(* Connection.send: the connection state after the event was sent *)
state_after_send(event, cs) ==
    IF event.event = "CloseConnection"
    THEN (IF cs = "REMOTE_CLOSING" THEN "CLOSED" ELSE "LOCAL_CLOSING")
    ELSE cs

(* Connection.send: the frame that goes to the wire *)
frame(event) ==
    CASE event.event = "TextMessage" -> [opcode |-> "TEXT", payload |-> event.data]
      [] event.event = "BytesMessage" -> [opcode |-> "BINARY", payload |-> event.data]
      [] event.event = "Pong" -> [opcode |-> "PONG"]
      [] event.event = "CloseConnection" -> [opcode |-> "CLOSE", code |-> event.code]

(* WSStream._send_wsproto_event with self.connection = cs: the exception
   raised or None, the events sent and the connection state afterwards *)
send_wsproto_event(event, cs) ==
    IF cs = Unset
    THEN [raised |-> "AttributeError", sent |-> <<>>, connection |-> cs]
    ELSE IF ~ can_send(event, cs)
    THEN [raised |-> "LocalProtocolError", sent |-> <<>>, connection |-> cs]
    ELSE [raised |-> None, sent |-> <<Data(frame(event))>>,
          connection |-> state_after_send(event, cs)]

(* The events the wsproto Connection yields from received frames: a message
   fragment, a Ping, or a close frame; EndOfData is the CloseConnection that
   receive_data(None) queues *)
Fragments == {<<"a">>, <<"b", "c">>}
MessageEvents ==
    [event : {"TextMessage"}, data : Fragments, message_finished : BOOLEAN]
    \cup [event : {"BytesMessage"}, data : {<<"a">>}, message_finished : {TRUE}]
Ping == [event |-> "Ping"]
CloseFrame == [event |-> "CloseConnection", code |-> NORMAL_CLOSURE, frame |-> TRUE]
EndOfData == [event |-> "CloseConnection", code |-> ABNORMAL_CLOSURE, frame |-> FALSE]
Frames == MessageEvents \cup {Ping, CloseFrame}

(* The Data events: the frames a chunk of received bytes decodes to, one
   frame, or a message fragment followed by a control frame *)
Chunks ==
    {<<f>> : f \in Frames}
    \cup {<<f, g>> : f \in MessageEvents, g \in {Ping, CloseFrame}}

(* Connection.events: the connection state once the event has been yielded *)
state_after_yield(ev, cs) ==
    IF ev.event = "CloseConnection" /\ ev.frame
    THEN (IF cs = "LOCAL_CLOSING" THEN "CLOSED" ELSE "REMOTE_CLOSING")
    ELSE cs

----------------------------------------------------------------------------
(* class WebsocketBuffer *)

NoValue == [kind |-> None, data |-> <<>>]

KindOf(event) == IF event.event = "TextMessage" THEN "str" ELSE "bytes"

(* WebsocketBuffer.extend: the exception raised or None, and self.value *)
extend(value, event) ==
    LET start == IF value.kind = None
                 THEN [kind |-> KindOf(event), data |-> <<>>]
                 ELSE value
        sum == [start EXCEPT !.data = @ \o event.data]
    IN  IF start.kind # KindOf(event)
        THEN [raised |-> "TypeError", value |-> start]
        ELSE IF Len(sum.data) > MaxMessageSize
        THEN [raised |-> "FrameTooLarge", value |-> sum]
        ELSE [raised |-> None, value |-> sum]

(* WebsocketBuffer.to_message *)
to_message(value) ==
    [type |-> "websocket.receive",
     bytes |-> IF value.kind = "bytes" THEN value.data ELSE NoList,
     text |-> IF value.kind = "str" THEN value.data ELSE NoList]

----------------------------------------------------------------------------
(* WSStream._handle_events, on a record s of the fields it works on:
   connection, pending, buffer, the events sent and the messages put so far,
   and the exception that ended it *)
RECURSIVE handle_events(_)
handle_events(s) ==
    IF s.pending = <<>> THEN s
    ELSE
    LET event == Head(s.pending)
        cs == state_after_yield(event, s.connection)
        s1 == [s EXCEPT !.pending = Tail(@), !.connection = cs]
    IN  IF event.event \in {"TextMessage", "BytesMessage"}
        THEN LET e == extend(s.buffer, event)
                 r == send_wsproto_event(CloseConnection(MESSAGE_TOO_BIG), cs)
             IN  IF e.raised = "TypeError"
                 THEN [s1 EXCEPT !.buffer = e.value, !.raised = e.raised]
                 ELSE IF e.raised = "FrameTooLarge"
                 THEN [s1 EXCEPT !.buffer = e.value, !.connection = r.connection,
                                 !.sent = @ \o r.sent, !.raised = r.raised]
                 ELSE IF event.message_finished
                 THEN handle_events([s1 EXCEPT !.buffer = NoValue,
                                        !.put = Append(@, to_message(e.value))])
                 ELSE handle_events([s1 EXCEPT !.buffer = e.value])
        ELSE IF event.event = "Ping"
        THEN LET r == send_wsproto_event(Pong, cs)
             IN  IF r.raised # None
                 THEN [s1 EXCEPT !.raised = r.raised]
                 ELSE handle_events([s1 EXCEPT !.sent = @ \o r.sent,
                                               !.connection = r.connection])
        ELSE \* CloseConnection
             LET r == send_wsproto_event(CloseConnection(event.code), cs)
             IN  IF cs = "REMOTE_CLOSING"
                 THEN handle_events([s1 EXCEPT !.sent = @ \o r.sent \o <<StreamClosed>>,
                                               !.connection = r.connection])
                 ELSE handle_events([s1 EXCEPT !.sent = Append(@, StreamClosed)])

----------------------------------------------------------------------------
(* WSStream.__init__ *)

(* H11Protocol.__init__: no stream, the gate as a new event, the parser idle *)
NoStream == 0

H11Init ==
    /\ client = "head"
    /\ received = 0
    /\ receive_buffer = <<>>
    /\ their_state = "IDLE"
    /\ our_state = "IDLE"
    /\ keep_alive = TRUE
    /\ waiting_for_100 = FALSE
    /\ stream = NoStream
    /\ streams = 0
    /\ can_read = FALSE
    /\ reading = "idle"
    /\ handled = <<>>
    /\ sends = <<>>

(* UDPServer.__init__: run has not started, the worker is not terminated and
   there is no protocol yet (idle is read only once run has made it) *)
NoDatagram == [n |-> 0, late |-> FALSE]

UDPInit ==
    /\ run = "start"
    /\ terminated = FALSE
    /\ idle = FALSE
    /\ datagrams = 0
    /\ socket = <<>>
    /\ datagram = NoDatagram
    /\ passed = <<>>

NoHandshake ==
    [http_version |-> Unset, connection_tokens |-> NoList, key |-> None,
     subprotocols |-> NoList, upgrade |-> None, version |-> None]
NoResponse == [type |-> Unset, status |-> 0]

Init ==
    /\ state = "HANDSHAKE"
    /\ closed = FALSE
    /\ app_put = None
    /\ handshake = NoHandshake
    /\ response = NoResponse
    /\ connection = Unset
    /\ pending = <<>>
    /\ buffer = NoValue
    /\ out = <<>>
    /\ appq = <<>>
    /\ call = [op |-> "__init__", event |-> None]
    /\ raised = None
    /\ H11Init
    /\ UDPInit

----------------------------------------------------------------------------
(* handle(Request) spawning the application whatever is_valid returns *)
handle_Request_always_spawns(request) ==
    /\ handshake = NoHandshake
    /\ handshake' = Handshake(request)
    /\ call' = [op |-> "handle", event |-> "Request"]
    /\ raised' = None
    /\ app_put' = "app_put"
    /\ appq' = Append(appq, [type |-> "websocket.connect"])
    /\ UNCHANGED <<state, closed, response, connection, pending, buffer, out>>

(* WSStream.handle(Request): the first event a stream is given *)
handle_Request(request) ==
    /\ handshake = NoHandshake
    /\ handshake' = Handshake(request)
    /\ call' = [op |-> "handle", event |-> "Request"]
    /\ LET valid == is_valid(Handshake(request))
       IN  /\ raised' = IF valid \in {"True", "False"} THEN None ELSE valid
           /\ out' = IF valid = "False" THEN out \o send_error_response(400) ELSE out
           /\ app_put' = IF valid = "True" THEN "app_put" ELSE app_put
           /\ appq' = IF valid = "True"
                      THEN Append(appq, [type |-> "websocket.connect"])
                      ELSE appq
    /\ UNCHANGED <<state, closed, response, connection, pending, buffer>>

(* Connection.receive_data(data), data not None: the exception raised or
   None, and the events the connection then holds *)
receive_data(chunk, cs, held) ==
    IF cs \in {"OPEN", "LOCAL_CLOSING"} THEN [raised |-> None, pending |-> held \o chunk]
    ELSE IF cs = "CLOSED" THEN [raised |-> "LocalProtocolError", pending |-> held]
    ELSE [raised |-> None, pending |-> held]

(* WSStream.handle(Body or Data) with data that is not empty *)
handle_Data(chunk) ==
    /\ handshake # NoHandshake
    /\ call' = [op |-> "handle", event |-> "Data"]
    /\ IF connection = Unset
       THEN /\ raised' = "AttributeError"
            /\ UNCHANGED <<connection, pending, buffer, out, appq>>
       ELSE LET rd == receive_data(chunk, connection, pending)
                s == handle_events([connection |-> connection, pending |-> rd.pending,
                                    buffer |-> buffer, sent |-> <<>>, put |-> <<>>,
                                    raised |-> None])
            IN  IF rd.raised # None
                THEN /\ raised' = rd.raised
                     /\ UNCHANGED <<connection, pending, buffer, out, appq>>
                ELSE /\ raised' = s.raised
                     /\ connection' = s.connection
                     /\ pending' = s.pending
                     /\ buffer' = s.buffer
                     /\ out' = out \o s.sent
                     /\ appq' = appq \o s.put
    /\ UNCHANGED <<state, closed, app_put, handshake, response>>

(* WSStream.handle(Body or Data) with data == b"": receive_data(None) *)
handle_EmptyData ==
    /\ handshake # NoHandshake
    /\ call' = [op |-> "handle", event |-> "EmptyData"]
    /\ IF connection = Unset
       THEN /\ raised' = "AttributeError"
            /\ UNCHANGED <<connection, pending, buffer, out, appq>>
       ELSE LET s == handle_events([connection |-> "CLOSED",
                                    pending |-> <<EndOfData>> \o pending,
                                    buffer |-> buffer, sent |-> <<>>, put |-> <<>>,
                                    raised |-> None])
            IN  /\ raised' = s.raised
                /\ connection' = s.connection
                /\ pending' = s.pending
                /\ buffer' = s.buffer
                /\ out' = out \o s.sent
                /\ appq' = appq \o s.put
    /\ UNCHANGED <<state, closed, app_put, handshake, response>>

(* handle(StreamClosed) that puts the disconnect and leaves self.closed alone *)
handle_StreamClosed_stays_open ==
    /\ handshake # NoHandshake
    /\ call' = [op |-> "handle", event |-> "StreamClosed"]
    /\ raised' = None
    /\ appq' = IF app_put # None
               THEN Append(appq, [type |-> "websocket.disconnect"])
               ELSE appq
    /\ UNCHANGED <<state, closed, app_put, handshake, response, connection, pending,
                   buffer, out>>

(* WSStream.handle(StreamClosed) *)
handle_StreamClosed ==
    /\ handshake # NoHandshake
    /\ call' = [op |-> "handle", event |-> "StreamClosed"]
    /\ raised' = None
    /\ IF app_put # None
       THEN /\ appq' = Append(appq, [type |-> "websocket.disconnect"])
            /\ closed' = TRUE
       ELSE UNCHANGED <<appq, closed>>
    /\ UNCHANGED <<state, app_put, handshake, response, connection, pending,
                   buffer, out>>

----------------------------------------------------------------------------
(* The messages an application passes to app_send; [type |-> None] is the
   None that signals that the application has errored *)
NotAStr == "<int>"
IsStr(text) == text \in {"t1", "t2"}

Messages ==
    {[type |-> None]}
    \cup [type : {"websocket.accept"}, subprotocol : {None, "chat", "mqtt"}]
    \cup [type : {"websocket.http.response.start"}, status : {403, 204}]
    \cup [type : {"websocket.http.response.body"}, more_body : BOOLEAN]
    \cup [type : {"websocket.send"}, bytes : {"b1"}, text : {None}]
    \cup [type : {"websocket.send"}, bytes : {None}, text : {"t1", "t2", NotAStr}]
    \cup [type : {"websocket.close"}, code : {NORMAL_CLOSURE}]
    \cup {[type |-> "websocket.receive"]}

(* app_send with the state test of the websocket.accept branch left out *)
branch_accept_in_any_state(message, st) ==
    IF message.type = None THEN "errored"
    ELSE IF message.type = "websocket.accept" THEN "accept"
    ELSE IF message.type = "websocket.http.response.start" /\ st = "HANDSHAKE"
    THEN "response.start"
    ELSE IF message.type = "websocket.http.response.body"
            /\ st \in {"HANDSHAKE", "RESPONSE"}
    THEN "response.body"
    ELSE IF message.type = "websocket.send" /\ st = "CONNECTED" THEN "send"
    ELSE IF message.type = "websocket.close" /\ st = "HANDSHAKE" THEN "reject"
    ELSE IF message.type = "websocket.close" THEN "close"
    ELSE "unexpected"

(* WSStream.app_send: the branch of the if/elif chain a message takes in
   ASGI state st *)
branch(message, st) ==
    IF message.type = None THEN "errored"
    ELSE IF message.type = "websocket.accept" /\ st = "HANDSHAKE" THEN "accept"
    ELSE IF message.type = "websocket.http.response.start" /\ st = "HANDSHAKE"
    THEN "response.start"
    ELSE IF message.type = "websocket.http.response.body"
            /\ st \in {"HANDSHAKE", "RESPONSE"}
    THEN "response.body"
    ELSE IF message.type = "websocket.send" /\ st = "CONNECTED" THEN "send"
    ELSE IF message.type = "websocket.close" /\ st = "HANDSHAKE" THEN "reject"
    ELSE IF message.type = "websocket.close" THEN "close"
    ELSE "unexpected"

(* app_send(None): the application has errored *)
app_send_errored ==
    LET r == send_wsproto_event(CloseConnection(ABNORMAL_CLOSURE), connection)
    IN  /\ IF state = "HANDSHAKE"
           THEN /\ out' = out \o send_error_response(500) \o <<StreamClosed>>
                /\ raised' = None
                /\ UNCHANGED connection
           ELSE IF state = "CONNECTED"
           THEN /\ out' = IF r.raised = None THEN out \o r.sent \o <<StreamClosed>> ELSE out
                /\ raised' = r.raised
                /\ connection' = r.connection
           ELSE /\ out' = Append(out, StreamClosed)
                /\ raised' = None
                /\ UNCHANGED connection
        /\ UNCHANGED <<state, response>>

(* app_send, websocket.accept in HANDSHAKE *)
app_send_accept(message) ==
    LET a == accept(handshake, message.subprotocol)
    IN  /\ state' = "CONNECTED"
        /\ raised' = a.raised
        /\ IF a.raised = None
           THEN /\ connection' = "OPEN"
                /\ out' = Append(out, Response(a.status_code, a.headers))
           ELSE UNCHANGED <<connection, out>>
        /\ UNCHANGED response

(* app_send, websocket.http.response.start in HANDSHAKE *)
app_send_response_start(message) ==
    /\ response' = [type |-> message.type, status |-> message.status]
    /\ raised' = None
    /\ UNCHANGED <<state, connection, out>>

(* _send_rejection sending the Response whatever the state *)
send_rejection_always_responds(message) ==
    IF response = NoResponse
    THEN /\ raised' = "AttributeError"
         /\ UNCHANGED <<state, connection, out, response>>
    ELSE /\ out' = out
                \o <<Response(response.status, {})>>
                \o (IF ~ suppress_body("GET", response.status) THEN <<Body>> ELSE <<>>)
                \o (IF ~ message.more_body THEN <<EndBody>> ELSE <<>>)
         /\ state' = IF ~ message.more_body THEN "HTTPCLOSED"
                     ELSE IF state = "HANDSHAKE" THEN "RESPONSE"
                     ELSE state
         /\ raised' = None
         /\ UNCHANGED <<connection, response>>

(* WSStream._send_rejection *)
send_rejection(message) ==
    IF response = NoResponse
    THEN /\ raised' = "AttributeError"
         /\ UNCHANGED <<state, connection, out, response>>
    ELSE /\ out' = out
                \o (IF state = "HANDSHAKE" THEN <<Response(response.status, {})>> ELSE <<>>)
                \o (IF ~ suppress_body("GET", response.status) THEN <<Body>> ELSE <<>>)
                \o (IF ~ message.more_body THEN <<EndBody>> ELSE <<>>)
         /\ state' = IF ~ message.more_body THEN "HTTPCLOSED"
                     ELSE IF state = "HANDSHAKE" THEN "RESPONSE"
                     ELSE state
         /\ raised' = None
         /\ UNCHANGED <<connection, response>>

(* app_send, websocket.send in CONNECTED *)
app_send_send(message) ==
    LET event == IF message.bytes # None THEN BytesMessage(message.bytes)
                 ELSE TextMessage(message.text)
        r == send_wsproto_event(event, connection)
    IN  /\ IF message.bytes = None /\ ~ IsStr(message.text)
           THEN /\ raised' = "TypeError"
                /\ UNCHANGED <<connection, out>>
           ELSE /\ raised' = r.raised
                /\ connection' = r.connection
                /\ out' = out \o r.sent
        /\ UNCHANGED <<state, response>>

(* app_send, websocket.close in HANDSHAKE *)
app_send_reject ==
    /\ out' = out \o send_error_response(403)
    /\ state' = "HTTPCLOSED"
    /\ raised' = None
    /\ UNCHANGED <<connection, response>>

(* app_send, websocket.close in any other state *)
app_send_close(message) ==
    LET r == send_wsproto_event(CloseConnection(message.code), connection)
    IN  /\ raised' = r.raised
        /\ connection' = r.connection
        /\ IF r.raised = None
           THEN /\ out' = out \o r.sent \o <<EndData>>
                /\ state' = "CLOSED"
           ELSE UNCHANGED <<out, state>>
        /\ UNCHANGED response

(* WSStream.app_send *)
app_send(message) ==
    /\ app_put # None
    /\ call' = [op |-> "app_send", event |-> message.type, message |-> message]
    /\ IF closed
       THEN /\ raised' = None
            /\ UNCHANGED <<state, connection, out, response>>
       ELSE LET b == branch(message, state)
            IN  CASE b = "errored" -> app_send_errored
                  [] b = "accept" -> app_send_accept(message)
                  [] b = "response.start" -> app_send_response_start(message)
                  [] b = "response.body" -> send_rejection(message)
                  [] b = "send" -> app_send_send(message)
                  [] b = "reject" -> app_send_reject
                  [] b = "close" -> app_send_close(message)
                  [] OTHER -> /\ raised' = "UnexpectedMessage"
                              /\ UNCHANGED <<state, connection, out, response>>
    /\ UNCHANGED <<closed, app_put, handshake, pending, buffer, appq>>

----------------------------------------------------------------------------
(* A call on the stream leaves the HTTP/1.1 protocol and the UDP server alone *)
StreamOnly == UNCHANGED <<h11vars, udpvars>>

Bounded ==
    /\ Len(out') <= MaxOut
    /\ Len(appq') <= MaxAppQ
    /\ Len(pending') <= MaxPending
    /\ Len(buffer'.data) <= MaxMessageSize + MaxOverflow

(* The stream with every application message; the wire delivers the Request,
   StreamClosed, the end of the data, and single Ping and close frames *)
AppChunks == {<<Ping>>, <<CloseFrame>>}

Next ==
    \/ \E request \in Requests : handle_Request(request) /\ Bounded /\ StreamOnly
    \/ \E chunk \in AppChunks : handle_Data(chunk) /\ Bounded /\ StreamOnly
    \/ handle_EmptyData /\ Bounded /\ StreamOnly
    \/ handle_StreamClosed /\ Bounded /\ StreamOnly
    \/ \E message \in Messages : app_send(message) /\ Bounded /\ StreamOnly

Spec == Init /\ [][Next]_vars

(* The stream with every chunk of frames on the wire; the application
   accepts, closes and errors *)
WireRequests == {r \in Requests : r.http_version = "1.1" /\ r.protocol = NoList}
WireMessages ==
    {m \in Messages :
        \/ m.type \in {None, "websocket.close"}
        \/ m.type = "websocket.accept" /\ m.subprotocol = None}

BoundedWire ==
    /\ Bounded
    /\ Len(out') + Len(appq') <= MaxWire

(* A chunk of two frames arrives only while the Connection holds no frame
   that an earlier call of _handle_events left undelivered. *)
Arrives(chunk) == pending = <<>> \/ Len(chunk) = 1

NextWire ==
    \/ \E request \in WireRequests : handle_Request(request) /\ BoundedWire /\ StreamOnly
    \/ \E chunk \in Chunks : Arrives(chunk) /\ handle_Data(chunk) /\ BoundedWire /\ StreamOnly
    \/ handle_EmptyData /\ BoundedWire /\ StreamOnly
    \/ handle_StreamClosed /\ BoundedWire /\ StreamOnly
    \/ \E message \in WireMessages : app_send(message) /\ BoundedWire /\ StreamOnly

SpecWire == Init /\ [][NextWire]_vars

(* The stream with every Request; the wire then delivers StreamClosed and
   data, the application rejects or errors *)
HandshakeMessages == {m \in Messages : m.type \in {None, "websocket.close"}}

NextHandshake ==
    \/ \E request \in AllRequests : handle_Request(request) /\ Bounded /\ StreamOnly
    \/ \E chunk \in AppChunks : handle_Data(chunk) /\ Bounded /\ StreamOnly
    \/ handle_EmptyData /\ Bounded /\ StreamOnly
    \/ handle_StreamClosed /\ Bounded /\ StreamOnly
    \/ \E message \in HandshakeMessages : app_send(message) /\ Bounded /\ StreamOnly

SpecHandshake == Init /\ [][NextHandshake]_vars

----------------------------------------------------------------------------
(* The HTTP/1.1 protocol of one connection, H11Protocol (section 4.3).  The
   bytes of a RawData event are modelled by the items the parser makes of
   them: a request head, a piece of body, the end of a message, or bytes that
   are not a request *)

H11Request(n, ka, expect) ==
    [item |-> "Request", n |-> n, keep_alive |-> ka, expect |-> expect]
H11Data == [item |-> "Data"]
H11EndOfMessage == [item |-> "EndOfMessage"]
Malformed == [item |-> "Malformed"]     \* a broken request line or header
Oversize == [item |-> "Oversize"]       \* header bytes beyond h11_max_incomplete_size

(* connection events (hypercorn/events.py) *)
RawData(line, close) == [type |-> "RawData", line |-> line, close |-> close]
Updated == [type |-> "Updated"]
Closed == [type |-> "Closed"]

(* the event a stream is handed for a parsed request head *)
Request(head) == [type |-> "Request", n |-> head.n, expect |-> head.expect]

(* The RawData events a client can send next, with what it sends after them:
   the n-th request head, alone or with the end of its message, two requests
   back to back, bytes that are not a request; after a head, its body *)
AfterMessage(ka) == IF ka THEN "head" ELSE "done"
AfterBody(c) == IF c = "body" THEN "head" ELSE "done"

ClientSends(c, n) ==
    IF c = "head"
    THEN {[chunk |-> <<H11Request(n + 1, ka, expect)>>,
           client |-> IF ka THEN "body" ELSE "last body",
           received |-> n + 1] : ka \in BOOLEAN, expect \in BOOLEAN}
         \cup {[chunk |-> <<H11Request(n + 1, ka, FALSE), H11EndOfMessage>>,
                client |-> AfterMessage(ka),
                received |-> n + 1] : ka \in BOOLEAN}
         \cup {[chunk |-> <<H11Request(n + 1, TRUE, FALSE), H11EndOfMessage,
                            H11Request(n + 2, ka, FALSE), H11EndOfMessage>>,
                client |-> AfterMessage(ka),
                received |-> n + 2] : ka \in BOOLEAN}
         \cup {[chunk |-> <<bad>>, client |-> "done", received |-> n] :
                    bad \in {Malformed, Oversize}}
    ELSE IF c \in {"body", "last body"}
    THEN {[chunk |-> <<H11Data>>, client |-> c, received |-> n],
          [chunk |-> <<H11EndOfMessage>>, client |-> AfterBody(c), received |-> n],
          [chunk |-> <<H11Data, H11EndOfMessage>>, client |-> AfterBody(c),
           received |-> n]}
    ELSE {}

(* The parser reading a request head although the last exchange is not over *)
next_event_without_pause(buf, their) ==
    IF buf = <<>> THEN "NEED_DATA"
    ELSE IF Head(buf).item = "Request" THEN "Request"
    ELSE IF their \in {"DONE", "MUST_CLOSE"} THEN "PAUSED"
    ELSE IF their = "SEND_BODY" /\ Head(buf).item \in {"Data", "EndOfMessage"}
    THEN Head(buf).item
    ELSE "RemoteProtocolError"

(* The parser: what it makes of the received items in state their *)
next_event(buf, their) ==
    IF buf = <<>> THEN "NEED_DATA"
    ELSE IF their \in {"DONE", "MUST_CLOSE"} THEN "PAUSED"
    ELSE IF their = "IDLE" /\ Head(buf).item = "Request" THEN "Request"
    ELSE IF their = "SEND_BODY" /\ Head(buf).item \in {"Data", "EndOfMessage"}
    THEN Head(buf).item
    ELSE "RemoteProtocolError"

H11Closed == \E i \in DOMAIN sends : sends[i] = Closed

(* H11Protocol.handle(RawData): the data is given to the parser and the
   events are handled *)
h11_handle_RawData(c) ==
    /\ reading = "idle"
    /\ client \notin {"done", "gone"}
    /\ ~ H11Closed
    /\ call' = [op |-> "h11.handle", event |-> "RawData"]
    /\ receive_buffer' = receive_buffer \o c.chunk
    /\ client' = c.client
    /\ received' = c.received
    /\ reading' = "events"
    /\ UNCHANGED <<their_state, our_state, keep_alive, waiting_for_100, stream,
                   streams, can_read, handled, sends>>

(* the error response without connection: close *)
h11_send_error_response_keep_alive(status) ==
    <<RawData(status, FALSE), RawData("", FALSE)>>

(* the canonical error response: the head with connection: close and the
   end of the message *)
h11_send_error_response(status) == <<RawData(status, TRUE), RawData("", FALSE)>>

(* H11Protocol._handle_events, one turn of its loop: the 100 interim response
   if the client waits for it, then the next event of the parser *)
h11_handle_events ==
    /\ reading = "events"
    /\ LET event == next_event(receive_buffer, their_state)
           continue == IF waiting_for_100 THEN <<RawData("100", FALSE)>> ELSE <<>>
           head == Head(receive_buffer)
           stream_id == streams + 1
       IN  /\ call' = [op |-> "h11._handle_events", event |-> event]
           /\ waiting_for_100' = (event = "Request" /\ head.expect)
           /\ CASE event = "Request" ->
                    /\ streams' = stream_id
                    /\ stream' = stream_id
                    /\ handled' = Append(handled, [stream_id |-> stream_id,
                                                   event |-> Request(head)])
                    /\ their_state' = "SEND_BODY"
                    /\ our_state' = "SEND_RESPONSE"
                    /\ keep_alive' = head.keep_alive
                    /\ receive_buffer' = Tail(receive_buffer)
                    /\ sends' = sends \o continue
                    /\ UNCHANGED <<can_read, reading>>
                [] event = "Data" ->
                    /\ handled' = Append(handled, [stream_id |-> stream, event |-> Body])
                    /\ receive_buffer' = Tail(receive_buffer)
                    /\ sends' = sends \o continue
                    /\ UNCHANGED <<their_state, our_state, keep_alive, stream, streams,
                                   can_read, reading>>
                [] event = "EndOfMessage" ->
                    /\ handled' = Append(handled, [stream_id |-> stream, event |-> EndBody])
                    /\ their_state' = IF keep_alive THEN "DONE" ELSE "MUST_CLOSE"
                    /\ receive_buffer' = Tail(receive_buffer)
                    /\ sends' = sends \o continue
                    /\ UNCHANGED <<our_state, keep_alive, stream, streams, can_read,
                                   reading>>
                [] event = "PAUSED" ->
                    /\ can_read' = FALSE
                    /\ reading' = "wait"
                    /\ sends' = sends \o continue
                    /\ UNCHANGED <<receive_buffer, their_state, our_state, keep_alive,
                                   stream, streams, handled>>
                [] event = "NEED_DATA" ->
                    /\ reading' = "idle"
                    /\ sends' = sends \o continue
                    /\ UNCHANGED <<receive_buffer, their_state, our_state, keep_alive,
                                   stream, streams, can_read, handled>>
                [] OTHER ->     \* RemoteProtocolError
                    /\ sends' = sends \o continue \o h11_send_error_response("400")
                                       \o <<Closed>>
                    /\ their_state' = "ERROR"
                    /\ reading' = "idle"
                    /\ UNCHANGED <<receive_buffer, our_state, keep_alive, stream, streams,
                                   can_read, handled>>
    /\ UNCHANGED <<client, received>>

(* H11Protocol._handle_events past can_read.wait(): the gate has been set *)
h11_can_read_wait ==
    /\ reading = "wait"
    /\ can_read
    /\ call' = [op |-> "h11._handle_events", event |-> "can_read"]
    /\ reading' = "events"
    /\ UNCHANGED <<client, received, receive_buffer, their_state, our_state, keep_alive,
                   waiting_for_100, stream, streams, can_read, handled, sends>>

(* stream_send(Response) leaving the client waiting for the 100 *)
stream_send_Response_keeps_waiting ==
    /\ stream # NoStream
    /\ our_state = "SEND_RESPONSE"
    /\ call' = [op |-> "h11.stream_send", event |-> "Response"]
    /\ sends' = Append(sends, RawData("200", ~ keep_alive))
    /\ our_state' = "SEND_BODY"
    /\ UNCHANGED <<client, received, receive_buffer, their_state, keep_alive, stream,
                   streams, can_read, reading, handled, waiting_for_100>>

(* H11Protocol.stream_send(Response): the final response of the live stream *)
stream_send_Response ==
    /\ stream # NoStream
    /\ our_state = "SEND_RESPONSE"
    /\ call' = [op |-> "h11.stream_send", event |-> "Response"]
    /\ sends' = Append(sends, RawData("200", ~ keep_alive))
    /\ our_state' = "SEND_BODY"
    /\ waiting_for_100' = FALSE
    /\ UNCHANGED <<client, received, receive_buffer, their_state, keep_alive, stream,
                   streams, can_read, reading, handled>>

(* H11Protocol.stream_send(Body) *)
stream_send_Body ==
    /\ stream # NoStream
    /\ our_state = "SEND_BODY"
    /\ call' = [op |-> "h11.stream_send", event |-> "Body"]
    /\ sends' = Append(sends, RawData("body", FALSE))
    /\ UNCHANGED <<client, received, receive_buffer, their_state, our_state, keep_alive,
                   waiting_for_100, stream, streams, can_read, reading, handled>>

(* stream_send(EndBody) keeping every connection alive *)
stream_send_EndBody_always_keeps_alive ==
    /\ stream # NoStream
    /\ our_state = "SEND_BODY"
    /\ their_state \in {"DONE", "MUST_CLOSE"}
    /\ call' = [op |-> "h11.stream_send", event |-> "EndBody"]
    /\ stream' = NoStream
    /\ sends' = sends \o <<RawData("", FALSE), Updated>>
    /\ their_state' = "IDLE"
    /\ our_state' = "IDLE"
    /\ can_read' = TRUE
    /\ UNCHANGED <<client, received, receive_buffer, keep_alive, waiting_for_100,
                   streams, reading, handled>>

(* H11Protocol.stream_send(EndBody): the end of the response, sent once the
   request has been read to its end; the stream is CLOSED, and the connection
   is recycled behind the gate or closed *)
stream_send_EndBody ==
    /\ stream # NoStream
    /\ our_state = "SEND_BODY"
    /\ their_state \in {"DONE", "MUST_CLOSE"}
    /\ call' = [op |-> "h11.stream_send", event |-> "EndBody"]
    /\ stream' = NoStream
    /\ IF keep_alive
       THEN /\ sends' = sends \o <<RawData("", FALSE), Updated>>
            /\ their_state' = "IDLE"
            /\ our_state' = "IDLE"
            /\ can_read' = TRUE
       ELSE /\ sends' = sends \o <<RawData("", FALSE), Closed>>
            /\ our_state' = "MUST_CLOSE"
            /\ UNCHANGED <<their_state, can_read>>
    /\ UNCHANGED <<client, received, receive_buffer, keep_alive, waiting_for_100,
                   streams, reading, handled>>

(* handle(Closed) forgetting the stream without telling it *)
h11_handle_Closed_drops_stream ==
    /\ client # "gone"
    /\ reading # "events"
    /\ call' = [op |-> "h11.handle", event |-> "Closed"]
    /\ client' = "gone"
    /\ stream' = NoStream
    /\ UNCHANGED <<received, receive_buffer, their_state, our_state, keep_alive,
                   waiting_for_100, streams, can_read, reading, handled, sends>>

(* H11Protocol.handle(Closed): the live stream is closed *)
h11_handle_Closed ==
    /\ client # "gone"
    /\ reading # "events"
    /\ call' = [op |-> "h11.handle", event |-> "Closed"]
    /\ client' = "gone"
    /\ stream' = NoStream
    /\ handled' = IF stream # NoStream
                  THEN Append(handled, [stream_id |-> stream, event |-> StreamClosed])
                  ELSE handled
    /\ UNCHANGED <<received, receive_buffer, their_state, our_state, keep_alive,
                   waiting_for_100, streams, can_read, reading, sends>>

(* A call on the protocol leaves the WebSocket stream and the UDP server alone *)
H11Only == UNCHANGED <<streamvars, udpvars>>

H11Bounded ==
    /\ received' <= MaxRequests
    /\ Len(handled') <= MaxHandled
    /\ Len(sends') <= MaxSends

NextH11 ==
    \/ \E c \in ClientSends(client, received) :
            h11_handle_RawData(c) /\ H11Bounded /\ H11Only
    \/ h11_handle_events /\ H11Bounded /\ H11Only
    \/ h11_can_read_wait /\ H11Bounded /\ H11Only
    \/ stream_send_Response /\ H11Bounded /\ H11Only
    \/ stream_send_Body /\ H11Bounded /\ H11Only
    \/ stream_send_EndBody /\ H11Bounded /\ H11Only
    \/ h11_handle_Closed /\ H11Bounded /\ H11Only

SpecH11 == Init /\ [][NextH11]_vars

----------------------------------------------------------------------------
(* The trio UDP server (hypercorn/trio/udp_server.py).  A datagram is its
   number in the order of arrival at the socket, and whether the worker was
   terminated or the protocol idle when it arrived *)

(* the worker context is terminated: context.terminated becomes true *)
terminate ==
    /\ ~ terminated
    /\ terminated' = TRUE
    /\ call' = [op |-> "context", event |-> "terminated"]
    /\ UNCHANGED <<run, idle, datagrams, socket, datagram, passed>>

(* a datagram arrives at the socket *)
arrive ==
    /\ datagrams < MaxDatagrams
    /\ datagrams' = datagrams + 1
    /\ socket' = Append(socket, [n |-> datagrams + 1, late |-> terminated \/ idle])
    /\ call' = [op |-> "socket", event |-> "datagram"]
    /\ UNCHANGED <<run, terminated, idle, datagram, passed>>

(* UDPServer.run up to its loop: the QuicProtocol is made; whether it is idle
   is the protocol's business *)
run_start ==
    /\ run = "start"
    /\ run' = "while"
    /\ idle' \in BOOLEAN
    /\ call' = [op |-> "run", event |-> "start"]
    /\ UNCHANGED <<terminated, datagrams, socket, datagram, passed>>

(* the test of the while loop *)
run_while ==
    /\ run = "while"
    /\ run' = IF ~ terminated /\ ~ idle THEN "recvfrom" ELSE "done"
    /\ call' = [op |-> "run", event |-> "while"]
    /\ UNCHANGED <<terminated, idle, datagrams, socket, datagram, passed>>

(* await self.socket.recvfrom(MAX_RECV) returns the oldest datagram *)
run_recvfrom ==
    /\ run = "recvfrom"
    /\ socket # <<>>
    /\ datagram' = Head(socket)
    /\ socket' = Tail(socket)
    /\ run' = "handle"
    /\ call' = [op |-> "run", event |-> "recvfrom"]
    /\ UNCHANGED <<terminated, idle, datagrams, passed>>

(* await self.protocol.handle(RawData(data, address)); the protocol is idle
   or not afterwards *)
run_handle ==
    /\ run = "handle"
    /\ passed' = Append(passed, datagram)
    /\ datagram' = NoDatagram
    /\ idle' \in BOOLEAN
    /\ run' = "while"
    /\ call' = [op |-> "run", event |-> "handle"]
    /\ UNCHANGED <<terminated, datagrams, socket>>

(* A step of the UDP server leaves the stream and the HTTP/1.1 protocol alone *)
UDPOnly == UNCHANGED <<streamvars, h11vars>>

NextUDP ==
    \/ terminate /\ UDPOnly
    \/ arrive /\ UDPOnly
    \/ run_start /\ UDPOnly
    \/ run_while /\ UDPOnly
    \/ run_recvfrom /\ UDPOnly
    \/ run_handle /\ UDPOnly

SpecUDP == Init /\ [][NextUDP]_vars

----------------------------------------------------------------------------
(* Properties *)

Responses(events) == {i \in DOMAIN events : events[i].type = "Response"}

(* The handshake validation of section 4.2: on HTTP/1.1 the connection header
   carries an upgrade token, upgrade is websocket in any case, the version is
   the supported one and the key is present; on HTTP/2 and HTTP/3 the
   version is the supported one *)
HandshakeIsValid(h) ==
    IF h.http_version = "1.1"
    THEN /\ h.connection_tokens # NoList
         /\ \E i \in DOMAIN h.connection_tokens : Lower(h.connection_tokens[i]) = "upgrade"
         /\ h.upgrade # None
         /\ Lower(h.upgrade) = "websocket"
         /\ h.version = WEBSOCKET_VERSION
         /\ h.key # None
    ELSE /\ h.http_version \in {"2", "3"}
         /\ h.version = WEBSOCKET_VERSION

(* C1: once a Request whose handshake is not valid has been handled, the
   events sent are exactly a 400 Response and an EndBody, the application has
   not been spawned and nothing has been put to it, whatever is handled
   afterwards *)
C1_InvalidHandshakeIsRejected ==
    (handshake # NoHandshake /\ ~ HandshakeIsValid(handshake))
        => /\ out = send_error_response(400)
           /\ app_put = None
           /\ appq = <<>>

(* C2: on an HTTP/1.1 Request is_valid returns True exactly when the
   handshake is valid and False, never an exception, in every other case *)
C2_IsValidDecides ==
    (handshake # NoHandshake /\ handshake.http_version = "1.1")
        => is_valid(handshake) = IF HandshakeIsValid(handshake) THEN "True" ELSE "False"

(* C3: the ASGI state starts in HANDSHAKE and changes only along the edges
   HANDSHAKE->CONNECTED, HANDSHAKE->RESPONSE, HANDSHAKE->HTTPCLOSED,
   RESPONSE->HTTPCLOSED and CONNECTED, RESPONSE, HTTPCLOSED -> CLOSED *)
Edges ==
    {<<"HANDSHAKE", "CONNECTED">>, <<"HANDSHAKE", "RESPONSE">>,
     <<"HANDSHAKE", "HTTPCLOSED">>, <<"RESPONSE", "HTTPCLOSED">>,
     <<"CONNECTED", "CLOSED">>, <<"RESPONSE", "CLOSED">>,
     <<"HTTPCLOSED", "CLOSED">>}

C3_StateEdges ==
    /\ state = "HANDSHAKE"
    /\ [][state' # state => <<state, state'>> \in Edges]_vars

C3_Witness ==
    /\ state = "CLOSED"
    /\ call.event = "websocket.close"
    /\ raised = None

(* C4: at most one Response is sent for the stream *)
C4_AtMostOneResponse == Cardinality(Responses(out)) <= 1

(* The events sent and the messages put by the step *)
Sent == SubSeq(out', Len(out) + 1, Len(out'))
Put == SubSeq(appq', Len(appq) + 1, Len(appq'))
Has(events, type) == \E i \in DOMAIN events : events[i].type = type
HasClose(events) ==
    \E i \in DOMAIN events : events[i].type = "Data" /\ events[i].data.opcode = "CLOSE"

Payload(message) == IF message.text # NoList THEN message.text ELSE message.bytes

(* C5: when the wire delivers a CloseConnection in state CONNECTED the close
   frame is echoed exactly when the peer initiated the close,
   websocket.disconnect is put to the application and the state becomes
   CLOSED *)
C5_CloseConnectionClosesStream ==
    [][(/\ state = "CONNECTED"
        /\ call'.op = "handle"
        /\ call'.event \in {"Data", "EmptyData"}
        /\ connection \in {"OPEN", "LOCAL_CLOSING"}
        /\ connection' = "CLOSED")
       => /\ HasClose(Sent) <=> (call'.event = "Data" /\ connection = "OPEN")
          /\ Has(Put, "websocket.disconnect")
          /\ state' = "CLOSED"]_vars

(* C6: when the buffered fragments exceed websocket_max_message_size a close
   frame with code 1009 is sent, the message is not put to the application,
   the state becomes CLOSED and the application is disconnected *)
C6_TooBigClosesStream ==
    [][(/\ state = "CONNECTED"
        /\ call'.op = "handle"
        /\ call'.event = "Data"
        /\ connection = "OPEN"
        /\ Len(buffer.data) <= MaxMessageSize
        /\ Len(buffer'.data) > MaxMessageSize)
       => /\ \E i \in DOMAIN Sent :
                Sent[i] = Data([opcode |-> "CLOSE", code |-> MESSAGE_TOO_BIG])
          /\ \A i \in DOMAIN Put :
                Put[i].type = "websocket.receive" => Len(Payload(Put[i])) <= MaxMessageSize
          /\ state' = "CLOSED"
          /\ (Has(Sent, "StreamClosed") \/ Has(Put, "websocket.disconnect"))]_vars

(* C7: a websocket.accept in state HANDSHAKE of a stream that is not closed
   sends exactly one Response, 101 on HTTP/1.1 and 200 otherwise, with a
   sec-websocket-accept header exactly when the client sent a key, and the
   state becomes CONNECTED; when the accept fails no Response is sent and the
   state does not become CONNECTED *)
C7_Accept ==
    [][(/\ state = "HANDSHAKE"
        /\ ~ closed
        /\ call'.op = "app_send"
        /\ call'.event = "websocket.accept")
       => IF raised' = None
          THEN /\ Len(Sent) = 1
               /\ Sent[1].type = "Response"
               /\ Sent[1].status_code = IF handshake.http_version = "1.1" THEN 101 ELSE 200
               /\ "sec-websocket-accept" \in Sent[1].headers <=> handshake.key # None
               /\ state' = "CONNECTED"
          ELSE /\ Sent = <<>>
               /\ state' # "CONNECTED"]_vars

(* C8: a websocket.close in state HANDSHAKE sends a 403 Response and an
   EndBody and nothing else, and the state becomes HTTPCLOSED; ifLive
   restricts the statement to a stream that has not handled StreamClosed *)
RejectsWith403(ifLive) ==
    (/\ state = "HANDSHAKE"
     /\ ifLive => ~ closed
     /\ call'.op = "app_send"
     /\ call'.event = "websocket.close")
    => /\ Sent = <<Response(403, {"content-length", "connection"}), EndBody>>
       /\ state' = "HTTPCLOSED"

C8_Original == [][RejectsWith403(FALSE)]_vars

C8_CloseInHandshake == [][RejectsWith403(TRUE)]_vars

C8_Witness ==
    /\ state = "HTTPCLOSED"
    /\ call.event = "websocket.close"
    /\ out = <<Response(403, {"content-length", "connection"}), EndBody>>

(* C9: in state HANDSHAKE websocket.http.response.start sends nothing and
   leaves the state; the first websocket.http.response.body after it sends the
   Response before any Body and a later one sends no Response; each body
   message sends one Body unless the status suppresses the body; the one with
   more_body false sends one EndBody and the state becomes HTTPCLOSED, the
   others leave it RESPONSE; ifLive restricts the statement to a stream that
   has not handled StreamClosed *)
BodyEvents(message, status) ==
    (IF suppress_body("GET", status) THEN <<>> ELSE <<Body>>)
    \o (IF message.more_body THEN <<>> ELSE <<EndBody>>)

RejectsWithResponse(ifLive) ==
    (/\ ifLive => ~ closed
     /\ call'.op = "app_send")
    => LET message == call'.message
       IN  /\ (message.type = "websocket.http.response.start" /\ state = "HANDSHAKE")
                => /\ Sent = <<>>
                   /\ state' = "HANDSHAKE"
           /\ (/\ message.type = "websocket.http.response.body"
               /\ state = "HANDSHAKE"
               /\ response # NoResponse)
                => /\ Sent = <<Response(response.status, {})>>
                               \o BodyEvents(message, response.status)
                   /\ state' = IF message.more_body THEN "RESPONSE" ELSE "HTTPCLOSED"
           /\ (message.type = "websocket.http.response.body" /\ state = "RESPONSE")
                => /\ Sent = BodyEvents(message, response.status)
                   /\ state' = IF message.more_body THEN "RESPONSE" ELSE "HTTPCLOSED"

C9_Original == [][RejectsWithResponse(FALSE)]_vars

C9_ResponseThenBody == [][RejectsWithResponse(TRUE)]_vars

C9_Witness ==
    /\ state = "HTTPCLOSED"
    /\ call.event = "websocket.http.response.body"
    /\ out = <<Response(403, {}), Body, Body, EndBody>>

(* C10: a websocket.send in state CONNECTED of a stream that is not closed
   sends exactly one Data event after those sent before, a binary frame for a
   bytes message and a text frame for a text message, and leaves the state; a
   text that is not a string sends nothing *)
C10_SendFrames ==
    [][(/\ state = "CONNECTED"
        /\ ~ closed
        /\ call'.op = "app_send"
        /\ call'.event = "websocket.send")
       => LET message == call'.message
          IN  IF message.bytes # None
              THEN /\ Sent = <<Data([opcode |-> "BINARY", payload |-> message.bytes])>>
                   /\ state' = state
              ELSE IF IsStr(message.text)
              THEN /\ Sent = <<Data([opcode |-> "TEXT", payload |-> message.text])>>
                   /\ state' = state
              ELSE /\ Sent = <<>>
                   /\ state' = state]_vars

(* C11: app_send(None) on a stream that is not closed sends, in HANDSHAKE, a
   500 Response, an EndBody and then StreamClosed; in CONNECTED a close frame
   with code ABNORMAL_CLOSURE and then StreamClosed; in every other state
   only StreamClosed *)
C11_AppError ==
    [][(/\ ~ closed
        /\ call'.op = "app_send"
        /\ call'.event = None)
       => Sent = CASE state = "HANDSHAKE" ->
                        <<Response(500, {"content-length", "connection"}), EndBody,
                          StreamClosed>>
                   [] state = "CONNECTED" ->
                        <<Data([opcode |-> "CLOSE", code |-> ABNORMAL_CLOSURE]),
                          StreamClosed>>
                   [] OTHER -> <<StreamClosed>>]_vars

(* C12: on a stream that is not closed, a message whose type is not permitted
   in the state (websocket.accept or websocket.http.response.start outside
   HANDSHAKE, websocket.send outside CONNECTED, websocket.http.response.body
   outside HANDSHAKE and RESPONSE, websocket.close in CLOSED or HTTPCLOSED, an
   unknown type) raises UnexpectedMessage, sends nothing and leaves the
   state *)
KnownTypes ==
    {"websocket.accept", "websocket.http.response.start",
     "websocket.http.response.body", "websocket.send", "websocket.close"}

NotPermitted(type, st) ==
    \/ type \in {"websocket.accept", "websocket.http.response.start"} /\ st # "HANDSHAKE"
    \/ type = "websocket.send" /\ st # "CONNECTED"
    \/ type = "websocket.http.response.body" /\ st \notin {"HANDSHAKE", "RESPONSE"}
    \/ type = "websocket.close" /\ st \in {"CLOSED", "HTTPCLOSED"}
    \/ type \notin KnownTypes \cup {None}

C12_UnexpectedMessage ==
    [][(/\ ~ closed
        /\ call'.op = "app_send"
        /\ NotPermitted(call'.event, state))
       => /\ raised' = "UnexpectedMessage"
          /\ Sent = <<>>
          /\ state' = state]_vars

(* C13: a Ping that the peer sends on an accepted stream whose connection
   still reads frames is answered with exactly one Data event, the pong, and
   puts nothing to the application *)
C13_PingIsAnswered ==
    [][(/\ connection \in {"OPEN", "LOCAL_CLOSING"}
        /\ pending = <<>>
        /\ handle_Data(<<Ping>>))
       => /\ Sent = <<Data([opcode |-> "PONG"])>>
          /\ Put = <<>>]_vars

(* The websocket.receive messages that a sequence of frames completes, in
   the order of their last fragments; value is the part of a message that
   arrived before *)
RECURSIVE Completed(_, _)
Completed(value, frames) ==
    IF frames = <<>> THEN <<>>
    ELSE LET f == Head(frames)
             data == value.data \o f.data
         IN  IF f.event \notin {"TextMessage", "BytesMessage"}
             THEN Completed(value, Tail(frames))
             ELSE IF f.message_finished
             THEN <<[type |-> "websocket.receive",
                     bytes |-> IF KindOf(f) = "bytes" THEN data ELSE NoList,
                     text |-> IF KindOf(f) = "str" THEN data ELSE NoList]>>
                  \o Completed(NoValue, Tail(frames))
             ELSE Completed([kind |-> KindOf(f), data |-> data], Tail(frames))

IsPrefix(p, q) == Len(p) <= Len(q) /\ \A i \in DOMAIN p : p[i] = q[i]

ConnectIsFirst ==
    /\ Cardinality({i \in DOMAIN appq : appq[i].type = "websocket.connect"})
            = IF app_put # None THEN 1 ELSE 0
    /\ appq # <<>> => /\ appq[1].type = "websocket.connect"
                      /\ is_valid(handshake) = "True"

ReceivesInWireOrder ==
    IF call'.op = "handle" /\ call'.event = "Data"
    THEN \A chunk \in Chunks :
            IsPrefix(Put, Completed(buffer, pending \o chunk)) \/ ~ handle_Data(chunk)
    ELSE IF call'.op = "handle" /\ call'.event = "EmptyData"
    THEN IsPrefix(Put, Completed(buffer, pending))
    ELSE ~ Has(Put, "websocket.receive")

(* C14: websocket.connect is put exactly once, after a valid Request and
   before every other message, and each call of handle puts the
   websocket.receive messages in the order in which the frames it was given,
   those left from earlier calls first, complete them *)
C14_WireOrder == []ConnectIsFirst /\ [][ReceivesInWireOrder]_vars

C14_Witness ==
    appq = <<[type |-> "websocket.connect"],
             [type |-> "websocket.receive", bytes |-> NoList, text |-> <<"a", "a">>],
             [type |-> "websocket.receive", bytes |-> <<"a">>, text |-> NoList]>>

(* The calls of protocol.send and of stream.handle made by the step *)
Emitted == SubSeq(sends', Len(sends) + 1, Len(sends'))
Dispatched == SubSeq(handled', Len(handled) + 1, Len(handled'))

IsRequest(h) == h.event.type = "Request"
RequestsHandled == SelectSeq(handled, IsRequest)

(* C15: the k-th Request dispatched is the k-th request received and goes to
   a stream of its own; once everything received has been parsed there are as
   many Request dispatches as requests received; the calls of stream.handle
   never return to an earlier stream; a Request is dispatched only when no
   stream is live; the gate is set only by the step that closes the stream,
   and the handler passes the gate only when no stream is live *)
InReceiveOrder ==
    /\ \A k \in DOMAIN RequestsHandled :
            /\ RequestsHandled[k].event.n = k
            /\ RequestsHandled[k].stream_id = k
    /\ Len(RequestsHandled) <= received
    /\ (reading = "idle" /\ ~ H11Closed /\ client # "gone")
            => Len(RequestsHandled) = received
    /\ \A i, j \in DOMAIN handled :
            i < j => handled[i].stream_id <= handled[j].stream_id

OneStreamAtATime ==
    /\ (\E i \in DOMAIN Dispatched : IsRequest(Dispatched[i])) => stream = NoStream
    /\ (can_read' /\ ~ can_read) => (stream # NoStream /\ stream' = NoStream)
    /\ (reading = "wait" /\ reading' = "events") => stream = NoStream

C15_Pipelining == []InReceiveOrder /\ [][OneStreamAtATime]_vars

C15_Witness ==
    /\ call = [op |-> "h11._handle_events", event |-> "can_read"]
    /\ reading = "events"
    /\ streams = 1
    /\ stream = NoStream
    /\ receive_buffer = <<H11Request(2, TRUE, FALSE), H11EndOfMessage>>

(* C16: the step that sends the EndBody of a response emits, after the end
   of the message, Closed when connection: close was negotiated and Updated
   otherwise, never both; the steps that send the Response and the Body emit
   neither *)
C16_ClosedOrUpdated ==
    [][call'.op = "h11.stream_send"
       => IF call'.event = "EndBody"
          THEN Emitted = <<RawData("", FALSE), IF keep_alive THEN Updated ELSE Closed>>
          ELSE \A i \in DOMAIN Emitted : Emitted[i] \notin {Updated, Closed}]_vars

C16_Witness ==
    /\ call = [op |-> "h11.stream_send", event |-> "EndBody"]
    /\ sends = <<RawData("200", FALSE), RawData("", FALSE), Updated>>

(* C17: bytes that are not a request, or header bytes beyond the limit, make
   the protocol emit the 400 response with connection: close and then
   Closed, dispatch nothing, and emit and dispatch nothing afterwards *)
C17_ProtocolError ==
    [][/\ (call'.op = "h11._handle_events" /\ call'.event = "RemoteProtocolError")
            => /\ Emitted = <<RawData("400", TRUE), RawData("", FALSE), Closed>>
               /\ Dispatched = <<>>
       /\ their_state = "ERROR" => (Emitted = <<>> /\ Dispatched = <<>>)]_vars

C17_Witness ==
    /\ their_state = "ERROR"
    /\ sends = <<RawData("400", TRUE), RawData("", FALSE), Closed>>
    /\ handled = <<>>

(* C18: handle(Closed) with a live stream hands that stream StreamClosed, as
   the last of the events dispatched to it *)
StreamClosedIsLast ==
    \A i, j \in DOMAIN handled :
        (i < j /\ handled[i].event = StreamClosed)
            => handled[j].stream_id # handled[i].stream_id

C18_StreamClosed ==
    /\ []StreamClosedIsLast
    /\ [][(call'.op = "h11.handle" /\ call'.event = "Closed" /\ stream # NoStream)
            => Dispatched = <<[stream_id |-> stream, event |-> StreamClosed]>>]_vars

C18_Witness ==
    handled = <<[stream_id |-> 1, event |-> Request(H11Request(1, FALSE, FALSE))],
                [stream_id |-> 1, event |-> EndBody],
                [stream_id |-> 1, event |-> StreamClosed]>>

(* C19: the 100 interim response is emitted at most once for each request
   that carries expect: 100-continue, only while no final Response has been
   sent and before any Body of the request is dispatched; a Body of a request
   whose client still waits is dispatched only behind the 100 *)
Is100(e) == e = RawData("100", FALSE)
Expects(h) == IsRequest(h) /\ h.event.expect

C19_Continue ==
    /\ [](Len(SelectSeq(sends, Is100)) <= Len(SelectSeq(handled, Expects)))
    /\ [][/\ Len(SelectSeq(Emitted, Is100)) <= 1
          /\ (\E i \in DOMAIN Emitted : Is100(Emitted[i]))
               => /\ our_state = "SEND_RESPONSE"
                  /\ \A i \in DOMAIN handled :
                       handled[i].stream_id = stream => handled[i].event # Body
                  /\ Emitted[1] = RawData("100", FALSE)
          /\ (waiting_for_100 /\ \E i \in DOMAIN Dispatched : Dispatched[i].event = Body)
               => Emitted = <<RawData("100", FALSE)>>]_vars

C19_Witness ==
    /\ sends = <<RawData("100", FALSE)>>
    /\ handled = <<[stream_id |-> 1, event |-> Request(H11Request(1, TRUE, TRUE))],
                   [stream_id |-> 1, event |-> Body]>>

(* C20: every datagram passed to protocol.handle arrived before the worker
   was terminated or the protocol idle, and the datagrams are passed once
   each in the order of their arrival *)
C20_DatagramLoop ==
    \A i \in DOMAIN passed : passed[i].n = i /\ ~ passed[i].late

(* C21: once handle(StreamClosed) has put websocket.disconnect to the
   application, every app_send, whatever the message, sends nothing, raises
   nothing and leaves the state, the connection and the stored response as
   they are *)
C21_DroppedAfterStreamClosed ==
    [][(Has(appq, "websocket.disconnect") /\ call'.op = "app_send")
        => /\ Sent = <<>>
           /\ raised' = None
           /\ state' = state
           /\ connection' = connection
           /\ response' = response]_vars

C21_Witness ==
    /\ call.op = "app_send"
    /\ call.event = None
    /\ state = "CONNECTED"
    /\ connection = "OPEN"
    /\ appq = <<[type |-> "websocket.connect"], [type |-> "websocket.disconnect"]>>
    /\ Len(out) = 1
    /\ out[1].type = "Response"
    /\ out[1].status_code = 101

(* C22: an EndData or a StreamClosed is the last event the stream sends:
   nothing follows either of them, so each is sent at most once *)
C22_NothingAfterEnd ==
    \A i \in DOMAIN out :
        out[i].type \in {"EndData", "StreamClosed"} => i = Len(out)

(* C23: websocket.disconnect is the last message put to the application:
   it is put at most once and no message is put after it *)
C23_DisconnectIsLast ==
    \A i \in DOMAIN appq :
        appq[i].type = "websocket.disconnect" => i = Len(appq)

(* C24: the buffer holds the fragments of one message that is not over the
   limit, so that it is empty when the message after a rejected one starts;
   every websocket.receive put to the application carries at most
   websocket_max_message_size of data and is the concatenation of what the
   buffer held and the fragments received up to the end of the message *)
BufferHoldsOneMessage == Len(buffer.data) <= MaxMessageSize

DeliversOneMessage ==
    /\ \A i \in DOMAIN Put :
            Put[i].type = "websocket.receive"
                => Len(Payload(Put[i])) <= MaxMessageSize
    /\ call'.event = "Data"
            => \A chunk \in Chunks :
                    IsPrefix(Put, Completed(buffer, pending \o chunk))
                    \/ ~ handle_Data(chunk)

C24_OneMessage == []BufferHoldsOneMessage /\ [][DeliversOneMessage]_vars

====
